---- MODULE Spec2Model ----
(***************************************************************************)
(* Model of the Blinko MCP server: the CallToolRequestSchema handler of    *)
(* src/src/index.ts (the dispatcher) and the BlinkoClient class of         *)
(* src/unnamed/part_000 (the remote note client).                          *)
(*                                                                         *)
(* A tool invocation runs synchronously from the entry of the handler to   *)
(* the fetch() call of the client operation it selects (or to the throw    *)
(* that ends it), is suspended there, and resumes when the transport       *)
(* answers.  JavaScript values are modelled with their type tag, strings   *)
(* are TLA+ strings (sequences of characters), and the coercions the code  *)
(* applies (String, Number, Boolean, JSON.stringify, Date) are operators   *)
(* computing what the runtime computes.                                    *)
(***************************************************************************)
EXTENDS Integers, Sequences, FiniteSets, TLC

VARIABLES domain, apiKey, inv, cli

vars == <<domain, apiKey, inv, cli>>

(***************************************************************************)
(* Bounds of the model.                                                    *)
(***************************************************************************)
\* number of notes a list response carries at most
MaxNotes == 1
\* number of invocations in flight at once in the concurrent specification
MaxSlots == 2

Slots == 1..MaxSlots

(***************************************************************************)
(* JavaScript values.  t is the kind of the value; n, s, b hold the        *)
(* payload of a number, a string, a boolean.                               *)
(***************************************************************************)
JSV(t, n, s, b) == [t |-> t, n |-> n, s |-> s, b |-> b]

Undefined == JSV("undefined", 0, "", FALSE)
Null == JSV("null", 0, "", FALSE)
NaN == JSV("NaN", 0, "", FALSE)
Infinity == JSV("Infinity", 0, "", FALSE)
NegInfinity == JSV("-Infinity", 0, "", FALSE)
Num(n) == JSV("number", n, "", FALSE)
Str(s) == JSV("string", 0, s, FALSE)
Bool(b) == JSV("boolean", 0, "", b)

\* typeof x === "number"
IsNumeric(x) == x.t \in {"number", "NaN", "Infinity", "-Infinity"}

\* Number.isFinite
IsFinite(x) == x.t = "number"

Digits == {"0", "1", "2", "3", "4", "5", "6", "7", "8", "9"}

WhiteSpace == {" ", "\t", "\n", "\r"}

CharAt(s, i) == SubSeq(s, i, i)

DigitVal(c) ==
  CASE c = "0" -> 0 [] c = "1" -> 1 [] c = "2" -> 2 [] c = "3" -> 3
    [] c = "4" -> 4 [] c = "5" -> 5 [] c = "6" -> 6 [] c = "7" -> 7
    [] c = "8" -> 8 [] c = "9" -> 9

AllDigits(s) == \A i \in 1..Len(s) : CharAt(s, i) \in Digits

RECURSIVE DecimalValue(_)
DecimalValue(s) ==
  IF Len(s) = 0 THEN 0
  ELSE 10 * DecimalValue(SubSeq(s, 1, Len(s) - 1)) + DigitVal(CharAt(s, Len(s)))

RECURSIVE TrimStart(_)
TrimStart(s) ==
  IF Len(s) > 0 /\ CharAt(s, 1) \in WhiteSpace THEN TrimStart(SubSeq(s, 2, Len(s)))
  ELSE s

RECURSIVE TrimEnd(_)
TrimEnd(s) ==
  IF Len(s) > 0 /\ CharAt(s, Len(s)) \in WhiteSpace THEN TrimEnd(SubSeq(s, 1, Len(s) - 1))
  ELSE s

Trim(s) == TrimEnd(TrimStart(s))

StartsWith(s, p) == Len(s) >= Len(p) /\ SubSeq(s, 1, Len(p)) = p

Contains(s, sub) ==
  \E i \in 1..(Len(s) - Len(sub) + 1) : SubSeq(s, i, i + Len(sub) - 1) = sub

(***************************************************************************)
(* StringToNumber: the numeric value of a string (ECMAScript               *)
(* StringToNumber) over integer literals, the Infinity literals and        *)
(* non-numeric text: surrounding white space is ignored, the empty string  *)
(* is 0, an optional sign precedes the digits.                             *)
(***************************************************************************)
StringToNumber(s) ==
  LET t == Trim(s)
      signed == Len(t) > 0 /\ CharAt(t, 1) \in {"+", "-"}
      neg == Len(t) > 0 /\ CharAt(t, 1) = "-"
      u == IF signed THEN SubSeq(t, 2, Len(t)) ELSE t
  IN  IF t = "" THEN Num(0)
      ELSE IF u = "Infinity" THEN (IF neg THEN NegInfinity ELSE Infinity)
      ELSE IF Len(u) > 0 /\ AllDigits(u)
           THEN Num(IF neg THEN 0 - DecimalValue(u) ELSE DecimalValue(u))
      ELSE NaN

\* Number(x)
ToNumber(x) ==
  CASE x.t = "undefined" -> NaN
    [] x.t = "null" -> Num(0)
    [] x.t = "boolean" -> Num(IF x.b THEN 1 ELSE 0)
    [] x.t = "string" -> StringToNumber(x.s)
    [] OTHER -> x

\* String(x), and the conversion a template literal applies to ${x}
ToStr(x) ==
  CASE x.t = "undefined" -> "undefined"
    [] x.t = "null" -> "null"
    [] x.t = "boolean" -> (IF x.b THEN "true" ELSE "false")
    [] x.t = "number" -> ToString(x.n)
    [] x.t = "string" -> x.s
    [] OTHER -> x.t

\* Boolean(x), and the test of x in a condition
Truthy(x) ==
  CASE x.t = "undefined" -> FALSE
    [] x.t = "null" -> FALSE
    [] x.t = "NaN" -> FALSE
    [] x.t = "boolean" -> x.b
    [] x.t = "number" -> x.n # 0
    [] x.t = "string" -> x.s # ""
    [] OTHER -> TRUE

\* isNaN(x) of a number
IsNaN(x) == x.t = "NaN"

\* the value JSON.stringify writes for a property value: a non-finite
\* number is written as null
JsonValue(x) == IF x.t \in {"NaN", "Infinity", "-Infinity"} THEN Null ELSE x

\* JSON.stringify of an object: a property whose value is undefined is left
\* out, the others are written by JsonValue
JsonObject(o) ==
  [k \in {j \in DOMAIN o : o[j] # Undefined} |-> JsonValue(o[k])]

\* mutant of SixDigits: the pattern without its end anchor, /^\d{6}/
SixDigitsUnanchored(s) == Len(s) >= 6 /\ AllDigits(SubSeq(s, 1, 6))

\* /^\d{6}$/.test(s)
SixDigits(s) == Len(s) = 6 /\ AllDigits(s)

(***************************************************************************)
(* The remote note client (class BlinkoClient).                            *)
(***************************************************************************)
\* x ?? d
Nullish(x, d) == IF x.t \in {"undefined", "null"} THEN d ELSE x

NoBody == [k \in {} |-> Undefined]

NoRequest == [method |-> "", url |-> "", auth |-> "", contentType |-> "", body |-> NoBody]

Thrown(msg) == [threw |-> TRUE, error |-> msg, request |-> NoRequest]

Fetch(method, url, key, ctype, body) ==
  [threw |-> FALSE, error |-> "",
   request |-> [method |-> method, url |-> url, auth |-> "Bearer " \o key,
                contentType |-> ctype, body |-> body]]

\* mutant of normalizeDomain: the trailing slash is kept
normalizeDomainNoStrip(dom) ==
  IF dom = "" THEN [threw |-> TRUE, error |-> "Domain cannot be empty", baseUrl |-> ""]
  ELSE [threw |-> FALSE, error |-> "",
        baseUrl |-> IF StartsWith(dom, "http://") \/ StartsWith(dom, "https://")
                    THEN dom ELSE "https://" \o dom]

\* the result of the constructor: the client, or the error it throws
normalizeDomain(dom) ==
  IF dom = "" THEN [threw |-> TRUE, error |-> "Domain cannot be empty", baseUrl |-> ""]
  ELSE LET d == IF CharAt(dom, Len(dom)) = "/" THEN SubSeq(dom, 1, Len(dom) - 1) ELSE dom
       IN  [threw |-> FALSE, error |-> "",
            baseUrl |-> IF StartsWith(d, "http://") \/ StartsWith(d, "https://")
                        THEN d ELSE "https://" \o d]

searchNotes(baseUrl, key, params) ==
  Fetch("POST", baseUrl \o "/api/v1/note/list", key, "application/json",
        JsonObject([size |-> Nullish(params.size, Num(5)),
                    type |-> Nullish(params.type, Num(-1)),
                    isArchived |-> Nullish(params.isArchived, Bool(FALSE)),
                    isRecycle |-> Nullish(params.isRecycle, Bool(FALSE)),
                    searchText |-> params.searchText,
                    isUseAiQuery |-> Nullish(params.isUseAiQuery, Bool(TRUE)),
                    startDate |-> Nullish(params.startDate, Null),
                    endDate |-> Nullish(params.endDate, Null),
                    hasTodo |-> Nullish(params.hasTodo, Bool(FALSE))]))

getDailyReviewNotes(baseUrl, key) ==
  Fetch("GET", baseUrl \o "/api/v1/note/daily-review-list", key, "", NoBody)

clearRecycleBin(baseUrl, key) ==
  Fetch("POST", baseUrl \o "/api/v1/note/clear-recycle-bin", key, "", NoBody)

\* params.type is Undefined when the caller leaves the type out (default 0)
upsertNote(baseUrl, key, params) ==
  IF ~Truthy(params.content) THEN Thrown("invalid content")
  ELSE Fetch("POST", baseUrl \o "/api/v1/note/upsert", key, "application/json",
             JsonObject([content |-> params.content,
                         type |-> IF params.type = Undefined THEN Num(0) ELSE params.type]))

\* updates is the object of the fields to update; a later property of an
\* object literal overrides an earlier one, so ...updates comes first in @@
updateNote(baseUrl, key, noteId, updates) ==
  Fetch("POST", baseUrl \o "/api/trpc/notes.upsert?batch=1", key, "application/json",
        ("0" :> [json |-> JsonObject(updates @@ [id |-> noteId])]))

deleteNote(baseUrl, key, noteId) ==
  Fetch("POST", baseUrl \o "/api/trpc/notes.deleteMany?batch=1", key, "application/json",
        ("0" :> [json |-> [ids |-> <<JsonValue(noteId)>>]]))

\* mutant of archiveNote: the wrong flag is set
archiveNoteRecycle(baseUrl, key, noteId) ==
  updateNote(baseUrl, key, noteId, [isRecycle |-> Bool(TRUE)])

archiveNote(baseUrl, key, noteId) ==
  updateNote(baseUrl, key, noteId, [isArchived |-> Bool(TRUE)])

shareNote(baseUrl, key, params) ==
  Fetch("POST", baseUrl \o "/api/v1/note/share", key, "application/json",
        JsonObject([id |-> params.id,
                    isCancel |-> Nullish(params.isCancel, Bool(FALSE)),
                    password |-> Nullish(params.password, Str(""))]))

(***************************************************************************)
(* The answer of the transport to one fetch: kind "http" with a status,    *)
(* the raw body text and, when the body parses as JSON, its value; kind    *)
(* "neterr" when fetch rejects.                                            *)
(***************************************************************************)
RespOk(resp) == resp.status >= 200 /\ resp.status <= 299

Rejected(msg) == [threw |-> TRUE, error |-> msg, value |-> <<>>]

Resolved(v) == [threw |-> FALSE, error |-> "", value |-> v]

\* mutant of StatusError: the message without the body text
StatusErrorNoBody(prefix, resp) == prefix \o ToString(resp.status)

\* `${prefix}${resp.status}: ${errorText}`
StatusError(prefix, resp) == prefix \o ToString(resp.status) \o ": " \o resp.text

\* the part every operation shares: await fetch, the resp.ok test, and
\* resp.json() where the operation decodes the body
Settle(prefix, resp, decodes, value) ==
  IF resp.kind = "neterr" THEN Rejected("fetch failed")
  ELSE IF ~RespOk(resp) THEN Rejected(StatusError(prefix, resp))
  ELSE IF decodes /\ ~resp.parses THEN Rejected("Unexpected token in JSON")
  ELSE Resolved(value)

Success == [success |-> TRUE]

searchNotesResult(resp) == Settle("request failed with status ", resp, TRUE, resp.json)

getDailyReviewNotesResult(resp) == Settle("request failed with status ", resp, TRUE, resp.json)

\* mutant of clearRecycleBinResult: the flag reports whether the status is 200
clearRecycleBinResultByStatus(resp) ==
  Settle("request failed with status ", resp, FALSE, [success |-> resp.status = 200])

clearRecycleBinResult(resp) == Settle("request failed with status ", resp, FALSE, Success)

upsertNoteResult(resp) == Settle("request failed with status ", resp, TRUE, resp.json)

updateNoteResult(resp) == Settle("Failed to update note: ", resp, FALSE, Success)

deleteNoteResult(resp) == Settle("Failed to delete note: ", resp, FALSE, Success)

archiveNoteResult(resp) == updateNoteResult(resp)

shareNoteResult(resp) ==
  Settle("request failed with status ", resp, TRUE,
         [id |-> resp.json.id, isShare |-> resp.json.isShare,
          sharePassword |-> resp.json.sharePassword,
          shareEncryptedUrl |-> resp.json.shareEncryptedUrl])

(***************************************************************************)
(* Dates.  new Date(s) of a string in the ISO format (the date alone, or   *)
(* date and time in UTC) is that instant; of any other text of the model   *)
(* it is an invalid date.  toLocaleString of an invalid date returns the   *)
(* text "Invalid Date" and does not throw; of a valid date it is rendered  *)
(* here as the en-US locale in UTC renders it.                             *)
(***************************************************************************)
Field(s, i, j) == DecimalValue(SubSeq(s, i, j))

IsoDateShape(s) ==
  /\ Len(s) >= 10
  /\ AllDigits(SubSeq(s, 1, 4)) /\ CharAt(s, 5) = "-"
  /\ AllDigits(SubSeq(s, 6, 7)) /\ CharAt(s, 8) = "-"
  /\ AllDigits(SubSeq(s, 9, 10))
  /\ Field(s, 6, 7) \in 1..12 /\ Field(s, 9, 10) \in 1..31

IsoTimeShape(s) ==
  /\ Len(s) = 24
  /\ CharAt(s, 11) = "T"
  /\ AllDigits(SubSeq(s, 12, 13)) /\ CharAt(s, 14) = ":"
  /\ AllDigits(SubSeq(s, 15, 16)) /\ CharAt(s, 17) = ":"
  /\ AllDigits(SubSeq(s, 18, 19)) /\ CharAt(s, 20) = "."
  /\ AllDigits(SubSeq(s, 21, 23)) /\ CharAt(s, 24) = "Z"
  /\ Field(s, 12, 13) \in 0..23 /\ Field(s, 15, 16) \in 0..59 /\ Field(s, 18, 19) \in 0..59

\* new Date(dateStr)
NewDate(s) ==
  IF IsoDateShape(s) /\ (Len(s) = 10 \/ IsoTimeShape(s))
  THEN [valid |-> TRUE, year |-> Field(s, 1, 4), month |-> Field(s, 6, 7),
        day |-> Field(s, 9, 10),
        hour |-> IF Len(s) = 10 THEN 0 ELSE Field(s, 12, 13),
        minute |-> IF Len(s) = 10 THEN 0 ELSE Field(s, 15, 16),
        second |-> IF Len(s) = 10 THEN 0 ELSE Field(s, 18, 19)]
  ELSE [valid |-> FALSE, year |-> 0, month |-> 0, day |-> 0, hour |-> 0,
        minute |-> 0, second |-> 0]

TwoDigits(n) == IF n < 10 THEN "0" \o ToString(n) ELSE ToString(n)

\* Date.prototype.toLocaleString: the text, and whether the call throws
toLocaleString(d) ==
  IF ~d.valid THEN [threw |-> FALSE, text |-> "Invalid Date"]
  ELSE [threw |-> FALSE,
        text |-> ToString(d.month) \o "/" \o ToString(d.day) \o "/" \o ToString(d.year)
                 \o ", "
                 \o ToString(IF d.hour % 12 = 0 THEN 12 ELSE d.hour % 12)
                 \o ":" \o TwoDigits(d.minute) \o ":" \o TwoDigits(d.second)
                 \o (IF d.hour < 12 THEN " AM" ELSE " PM")]

(***************************************************************************)
(* The dispatcher (the CallToolRequestSchema handler).                     *)
(***************************************************************************)
\* try { return new Date(dateStr).toLocaleString(); } catch { return dateStr; }
formatDate(dateStr) ==
  LET r == toLocaleString(NewDate(dateStr))
  IN  IF r.threw THEN dateStr ELSE r.text

getTypeDescription(type) ==
  CASE type = Num(0) -> "Flash Note"
    [] type = Num(1) -> "Normal Note"
    [] type = Num(2) -> "Todo Note"
    [] OTHER -> "Unknown"

\* one rendered block of a note list
NoteBlock(note) ==
  "- [ID: " \o ToStr(note.id) \o "] [" \o getTypeDescription(note.type) \o "] "
  \o ToStr(note.content) \o "\n  Created: " \o formatDate(ToStr(note.createdAt))
  \o " | Updated: " \o formatDate(ToStr(note.updatedAt))

UpsertTools == {"upsert_blinko_flash_note", "upsert_blinko_note", "upsert_blinko_todo"}

ArchiveTools == {"archive_blinko_note", "complete_blinko_todo"}

NoteIdTools ==
  {"update_blinko_note", "delete_blinko_note", "share_blinko_note"} \cup ArchiveTools

\* the type the three upsert tools write
UpsertType(name) ==
  IF name = "upsert_blinko_flash_note" THEN 0
  ELSE IF name = "upsert_blinko_note" THEN 1
  ELSE 2

\* mutant of InvalidNoteId: only NaN is refused
InvalidNoteIdNaNOnly(noteId) == IsNaN(noteId)

\* if (!noteId || isNaN(noteId)) throw
InvalidNoteId(noteId) == ~Truthy(noteId) \/ IsNaN(noteId)

\* mutant of Updates: the flags are coerced without the test for undefined
UpdatesFlagsAlways(args) ==
  [k \in {j \in {"content", "type"} : args[j] # Undefined} \cup {"isArchived", "isTop"} |->
     CASE k = "content" -> Str(ToStr(args.content))
       [] k = "type" -> ToNumber(args.type)
       [] k = "isArchived" -> Bool(Truthy(args.isArchived))
       [] k = "isTop" -> Bool(Truthy(args.isTop))]

\* the updates object of update_blinko_note: one property for each of the
\* four arguments that is not undefined
Updates(args) ==
  [k \in {j \in {"content", "type", "isArchived", "isTop"} : args[j] # Undefined} |->
     CASE k = "content" -> Str(ToStr(args.content))
       [] k = "type" -> ToNumber(args.type)
       [] k = "isArchived" -> Bool(Truthy(args.isArchived))
       [] k = "isTop" -> Bool(Truthy(args.isTop))]

\* mutant of NoteType: any number is forwarded
NoteTypeAnyNumber(type) == IF IsNumeric(type) THEN type ELSE Num(-1)

\* let noteType = -1; if (type === 0 || type === 1 || type === 2) noteType = type
NoteType(type) == IF type \in {Num(0), Num(1), Num(2)} THEN type ELSE Num(-1)

SearchParams(args) ==
  [searchText |-> Str(ToStr(args.searchText)),
   size |-> (LET n == ToNumber(args.size) IN IF Truthy(n) THEN n ELSE Undefined),
   type |-> NoteType(args.type),
   isArchived |-> Bool(Truthy(args.isArchived)),
   isRecycle |-> Bool(Truthy(args.isRecycle)),
   isUseAiQuery |-> Bool(args.isUseAiQuery # Bool(FALSE)),
   startDate |-> IF Truthy(args.startDate) THEN Str(ToStr(args.startDate)) ELSE Null,
   endDate |-> IF Truthy(args.endDate) THEN Str(ToStr(args.endDate)) ELSE Null,
   hasTodo |-> Bool(Truthy(args.hasTodo))]

\* const passwordStr = password ? String(password) : ""
PasswordStr(password) == IF Truthy(password) THEN ToStr(password) ELSE ""

Validation(msg) == [threw |-> TRUE, error |-> msg, op |-> "none", request |-> NoRequest]

Via(op, call) ==
  [threw |-> call.threw, error |-> call.error, op |-> op, request |-> call.request]

\* the switch on the tool name, up to the fetch of the client operation
Dispatch(name, args, baseUrl, key) ==
  CASE name \in UpsertTools ->
         LET content == Str(ToStr(args.content))
         IN  IF ~Truthy(content) THEN Validation("Content is required")
             ELSE Via("upsertNote",
                      upsertNote(baseUrl, key,
                                 [content |-> content, type |-> Num(UpsertType(name))]))
    [] name = "update_blinko_note" ->
         LET noteId == ToNumber(args.noteId)
         IN  IF InvalidNoteId(noteId) THEN Validation("Valid note ID is required")
             ELSE Via("updateNote", updateNote(baseUrl, key, noteId, Updates(args)))
    [] name = "delete_blinko_note" ->
         LET noteId == ToNumber(args.noteId)
         IN  IF InvalidNoteId(noteId) THEN Validation("Valid note ID is required")
             ELSE Via("deleteNote", deleteNote(baseUrl, key, noteId))
    [] name \in ArchiveTools ->
         LET noteId == ToNumber(args.noteId)
         IN  IF InvalidNoteId(noteId) THEN Validation("Valid note ID is required")
             ELSE Via("archiveNote", archiveNote(baseUrl, key, noteId))
    [] name = "search_blinko_notes" ->
         IF ~Truthy(Str(ToStr(args.searchText))) THEN Validation("Search text is required")
         ELSE Via("searchNotes", searchNotes(baseUrl, key, SearchParams(args)))
    [] name = "review_blinko_daily_notes" ->
         Via("getDailyReviewNotes", getDailyReviewNotes(baseUrl, key))
    [] name = "share_blinko_note" ->
         LET noteId == ToNumber(args.noteId)
             passwordStr == PasswordStr(args.password)
         IN  IF InvalidNoteId(noteId) THEN Validation("Valid note ID is required")
             ELSE IF passwordStr # "" /\ ~SixDigits(passwordStr)
                  THEN Validation("Password must be exactly 6 digits")
             ELSE Via("shareNote",
                      shareNote(baseUrl, key,
                                [id |-> noteId, password |-> Str(passwordStr),
                                 isCancel |-> Bool(Truthy(args.isCancel))]))
    [] name = "clear_blinko_recycle_bin" ->
         Via("clearRecycleBin", clearRecycleBin(baseUrl, key))
    [] OTHER -> Validation("Unknown tool")

\* mutant of Handler: the API key is not checked
HandlerKeyUnchecked(name, args, dom, key) ==
  IF dom = "" THEN [clientBuilt |-> FALSE] @@ Validation("Blinko domain not set")
  ELSE LET c == normalizeDomain(dom)
       IN  [clientBuilt |-> TRUE] @@ Dispatch(name, args, c.baseUrl, key)

\* the handler from its entry to its first suspension: the configuration
\* checks, the construction of the client, the switch
Handler(name, args, dom, key) ==
  IF dom = "" THEN [clientBuilt |-> FALSE] @@ Validation("Blinko domain not set")
  ELSE IF key = "" THEN [clientBuilt |-> FALSE] @@ Validation("Blinko API key not set")
  ELSE LET c == normalizeDomain(dom)
       IN  IF c.threw THEN [clientBuilt |-> FALSE] @@ Validation(c.error)
           ELSE [clientBuilt |-> TRUE] @@ Dispatch(name, args, c.baseUrl, key)

Failed(msg) == [threw |-> TRUE, error |-> msg, content |-> <<>>]

Returned(blocks) == [threw |-> FALSE, error |-> "", content |-> blocks]

RECURSIVE MapNoteBlock(_)
MapNoteBlock(notes) ==
  IF notes = <<>> THEN <<>>
  ELSE <<NoteBlock(Head(notes))>> \o MapNoteBlock(Tail(notes))

\* mutant of ShareBlocks: the link is rendered without the "N/A" fallback
ShareBlocksNoFallback(result) ==
  IF Truthy(result.isShare)
  THEN <<"Successfully shared note (ID: " \o ToStr(result.id) \o ")">>
       \o (IF Truthy(result.sharePassword)
           THEN <<"Share password: " \o ToStr(result.sharePassword)>> ELSE <<>>)
       \o <<"Share link: " \o ToStr(result.shareEncryptedUrl)>>
  ELSE <<"Successfully cancelled sharing for note (ID: " \o ToStr(result.id) \o ")">>

\* the blocks share_blinko_note returns for the result of shareNote
ShareBlocks(result) ==
  IF Truthy(result.isShare)
  THEN <<"Successfully shared note (ID: " \o ToStr(result.id) \o ")">>
       \o (IF Truthy(result.sharePassword)
           THEN <<"Share password: " \o ToStr(result.sharePassword)>> ELSE <<>>)
       \o <<"Share link: " \o (IF Truthy(result.shareEncryptedUrl)
                                THEN ToStr(result.shareEncryptedUrl) ELSE "N/A")>>
  ELSE <<"Successfully cancelled sharing for note (ID: " \o ToStr(result.id) \o ")">>

\* the handler from the answer of the transport to its end: an error of the
\* client operation propagates, a result is rendered as text blocks
Complete(name, args, resp) ==
  CASE name \in UpsertTools ->
         LET r == upsertNoteResult(resp)
         IN  IF r.threw THEN Failed(r.error)
             ELSE Returned(<<"Successfully wrote note to Blinko. Note ID: "
                             \o ToStr(r.value.id)>>)
    [] name = "update_blinko_note" ->
         LET r == updateNoteResult(resp)
         IN  IF r.threw THEN Failed(r.error)
             ELSE Returned(<<"Successfully updated note " \o ToStr(ToNumber(args.noteId))>>)
    [] name = "delete_blinko_note" ->
         LET r == deleteNoteResult(resp)
         IN  IF r.threw THEN Failed(r.error)
             ELSE Returned(<<"Successfully deleted note " \o ToStr(ToNumber(args.noteId))>>)
    [] name \in ArchiveTools ->
         LET r == archiveNoteResult(resp)
             action == IF name = "complete_blinko_todo" THEN "completed" ELSE "archived"
         IN  IF r.threw THEN Failed(r.error)
             ELSE Returned(<<"Successfully " \o action \o " note "
                             \o ToStr(ToNumber(args.noteId))>>)
    [] name = "search_blinko_notes" ->
         LET r == searchNotesResult(resp)
         IN  IF r.threw THEN Failed(r.error)
             ELSE Returned(<<"Found " \o ToString(Len(r.value)) \o " note(s):">>
                           \o MapNoteBlock(r.value))
    [] name = "review_blinko_daily_notes" ->
         LET r == getDailyReviewNotesResult(resp)
         IN  IF r.threw THEN Failed(r.error)
             ELSE Returned(<<"Found " \o ToString(Len(r.value))
                             \o " note(s) for today's review:">>
                           \o MapNoteBlock(r.value))
    [] name = "share_blinko_note" ->
         LET r == shareNoteResult(resp)
         IN  IF r.threw THEN Failed(r.error) ELSE Returned(ShareBlocks(r.value))
    [] name = "clear_blinko_recycle_bin" ->
         LET r == clearRecycleBinResult(resp)
         IN  IF r.threw THEN Failed(r.error)
             ELSE IF ~r.value.success THEN Failed("Failed to clear recycle bin")
             ELSE Returned(<<"Successfully cleared Blinko recycle bin.">>)

(***************************************************************************)
(* Inputs: the configuration, the tool names and argument bags a caller    *)
(* sends, and the answers of the remote service.                           *)
(***************************************************************************)
Domains == {"", "example.com", "http://example.com:3000/"}

ApiKeys == {"", "key"}

ToolNames == UpsertTools \cup NoteIdTools
             \cup {"search_blinko_notes", "review_blinko_daily_notes",
                   "clear_blinko_recycle_bin", "no_such_tool"}

ArgKeys == {"content", "noteId", "type", "isArchived", "isTop", "password", "isCancel",
            "searchText", "size", "isRecycle", "isUseAiQuery", "startDate", "endDate",
            "hasTodo"}

\* the argument bag with no argument supplied
NoArgs == [k \in ArgKeys |-> Undefined]

ContentValues == {Undefined, Str(""), Str("buy milk")}

\* Infinity is what JSON.parse yields for a literal such as 1e999
NoteIdValues == {Undefined, Num(5), Num(0), Str("7"), Str("abc"), Infinity, Str("Infinity")}

TypeValues == {Undefined, Num(0), Num(1), Num(2), Num(5), Num(-1), Str("2")}

PasswordValues == {Undefined, Str(""), Str("12345"), Str("123456"), Str("12345a"),
                   Str("1234567"), Num(123456), Num(0)}

ArgsFor(name) ==
  CASE name \in UpsertTools ->
         {[NoArgs EXCEPT !.content = c] : c \in ContentValues}
    [] name = "update_blinko_note" ->
         {[NoArgs EXCEPT !.noteId = i, !.content = c, !.type = t, !.isArchived = a,
                         !.isTop = p] :
            i \in NoteIdValues, c \in {Undefined, Str("buy milk")},
            t \in {Undefined, Num(1), Num(5), Str("2")},
            a \in {Undefined, Bool(TRUE)}, p \in {Undefined, Bool(FALSE)}}
    [] name \in {"delete_blinko_note"} \cup ArchiveTools ->
         {[NoArgs EXCEPT !.noteId = i] : i \in NoteIdValues}
    [] name = "share_blinko_note" ->
         {[NoArgs EXCEPT !.noteId = i, !.password = p, !.isCancel = c] :
            i \in NoteIdValues, p \in PasswordValues, c \in {Undefined, Bool(TRUE)}}
    [] name = "search_blinko_notes" ->
         {[NoArgs EXCEPT !.searchText = q, !.type = t, !.size = z, !.isUseAiQuery = u] :
            q \in {Undefined, Str(""), Str("project")}, t \in TypeValues,
            z \in {Undefined, Num(10)}, u \in {Undefined, Bool(FALSE)}}
    [] OTHER -> {NoArgs}

Response(kind, status, text, parses, json) ==
  [kind |-> kind, status |-> status, text |-> text, parses |-> parses, json |-> json]

NoResponse == Response("none", 0, "", FALSE, <<>>)

NetworkFailure == Response("neterr", 0, "", FALSE, <<>>)

ErrorResponses ==
  {Response("http", 404, "note not found", FALSE, <<>>),
   Response("http", 500, "{\"error\":\"internal\"}", TRUE, <<>>),
   Response("http", 401, "", FALSE, <<>>)}

Timestamps == {"2024-03-05T14:07:09.000Z", "not-a-date"}

Notes ==
  {[id |-> Num(42), type |-> t, content |-> Str("buy milk"), createdAt |-> Str(c),
    updatedAt |-> Str(u)] : t \in {Num(0), Num(2), Num(7)}, c \in Timestamps,
                            u \in Timestamps}

RECURSIVE SeqsUpTo(_, _)
SeqsUpTo(S, n) ==
  IF n = 0 THEN {<<>>}
  ELSE LET shorter == SeqsUpTo(S, n - 1)
       IN  shorter \cup {Append(q, x) : q \in shorter, x \in S}

ShareResults ==
  {[id |-> Num(5), isShare |-> Bool(s), sharePassword |-> p, shareEncryptedUrl |-> u] :
     s \in BOOLEAN, p \in {Undefined, Str(""), Str("123456")},
     u \in {Undefined, Null, Str("https://example.com/share/abc")}}

\* the bodies a 2xx answer to the operation carries
OkBodies(op) ==
  CASE op \in {"searchNotes", "getDailyReviewNotes"} -> SeqsUpTo(Notes, MaxNotes)
    [] op = "upsertNote" -> Notes
    [] op = "shareNote" -> ShareResults
    [] OTHER -> {<<>>}

Decodes(op) == op \in {"searchNotes", "getDailyReviewNotes", "upsertNote", "shareNote"}

Responses(op) ==
  {Response("http", 200, "", TRUE, j) : j \in OkBodies(op)}
  \cup (IF Decodes(op) THEN {Response("http", 200, "<html>", FALSE, <<>>)}
        ELSE {Response("http", 204, "", FALSE, <<>>)})
  \cup ErrorResponses \cup {NetworkFailure}

(***************************************************************************)
(* The state machine.  inv[s] is the invocation in slot s: where it is     *)
(* (idle, awaiting the transport, done), what it was called with, whether  *)
(* it constructed a client, the requests it handed to fetch, the answer it *)
(* got and how it ended.                                                   *)
(***************************************************************************)
NoOutcome == [status |-> "none", error |-> "", content |-> <<>>]

Idle ==
  [pc |-> "idle", name |-> "", args |-> NoArgs, clientBuilt |-> FALSE, op |-> "none",
   sent |-> <<>>, response |-> NoResponse, outcome |-> NoOutcome]

Outcome(r) ==
  [status |-> IF r.threw THEN "error" ELSE "ok", error |-> r.error, content |-> r.content]

\* no client has been constructed outside the handler
NoClient ==
  [pc |-> "none", baseUrl |-> "", error |-> "", op |-> "none",
   params |-> [content |-> Undefined, type |-> Undefined], sent |-> <<>>,
   result |-> Resolved(<<>>)]

Init ==
  /\ domain \in Domains
  /\ apiKey \in ApiKeys
  /\ inv = [s \in Slots |-> Idle]
  /\ cli = NoClient

\* a caller invokes a tool: the handler runs to its fetch or to its throw
Call(s, name, args) ==
  /\ inv[s].pc = "idle"
  /\ LET h == Handler(name, args, domain, apiKey)
     IN  inv' = [inv EXCEPT ![s] =
                   [pc |-> IF h.threw THEN "done" ELSE "awaiting",
                    name |-> name, args |-> args, clientBuilt |-> h.clientBuilt,
                    op |-> h.op,
                    sent |-> IF h.threw THEN <<>> ELSE <<h.request>>,
                    response |-> NoResponse,
                    outcome |-> IF h.threw THEN Outcome(Failed(h.error)) ELSE NoOutcome]]
  /\ UNCHANGED <<domain, apiKey, cli>>

\* mutant of Respond: the answer is kept in one place shared by all the
\* invocations, so every invocation that awaits is resumed with it
RespondShared(s, resp) ==
  /\ inv[s].pc = "awaiting"
  /\ inv' = [t \in Slots |->
              IF inv[t].pc = "awaiting"
              THEN [inv[t] EXCEPT !.pc = "done", !.response = resp,
                                  !.outcome = Outcome(Complete(inv[t].name, inv[t].args, resp))]
              ELSE inv[t]]
  /\ UNCHANGED <<domain, apiKey, cli>>

\* the transport answers the pending fetch: the handler runs to its end
Respond(s, resp) ==
  /\ inv[s].pc = "awaiting"
  /\ inv' = [inv EXCEPT ![s].pc = "done", ![s].response = resp,
                        ![s].outcome = Outcome(Complete(inv[s].name, inv[s].args, resp))]
  /\ UNCHANGED <<domain, apiKey, cli>>

\* the result or the error has been delivered to the caller
Deliver(s) ==
  /\ inv[s].pc = "done"
  /\ inv' = [inv EXCEPT ![s] = Idle]
  /\ UNCHANGED <<domain, apiKey, cli>>

\* one invocation at a time, any tool, any arguments
Next ==
  \/ \E name \in ToolNames : \E args \in ArgsFor(name) : Call(1, name, args)
  \/ \E resp \in Responses(inv[1].op) : Respond(1, resp)
  \/ Deliver(1)

Spec == Init /\ [][Next]_vars

(***************************************************************************)
(* Two invocations in flight: archive_blinko_note and complete_blinko_todo *)
(* called in any order, each answered in any order.                        *)
(***************************************************************************)
PairNoteIds == {Undefined, Num(7), Str("7"), Str("Infinity")}

PairArgs == {[NoArgs EXCEPT !.noteId = i] : i \in PairNoteIds}

NextPair ==
  \/ \E s \in Slots : \E name \in ArchiveTools : \E args \in PairArgs : Call(s, name, args)
  \/ \E s \in Slots : \E resp \in Responses(inv[s].op) : Respond(s, resp)
  \/ \E s \in Slots : Deliver(s)

SpecPair == Init /\ [][NextPair]_vars

(***************************************************************************)
(* Invocations of different tools in flight at once: every slot may be     *)
(* called while the others are suspended at their fetch, and the answers   *)
(* arrive in any order.                                                    *)
(***************************************************************************)
ConcTools ==
  {"archive_blinko_note", "delete_blinko_note", "clear_blinko_recycle_bin", "no_such_tool"}

ConcNoteIds == {Undefined, Num(7), Str("7")}

ConcArgs(name) ==
  IF name \in NoteIdTools THEN {[NoArgs EXCEPT !.noteId = i] : i \in ConcNoteIds}
  ELSE {NoArgs}

NextConc ==
  \/ \E s \in Slots : \E name \in ConcTools : \E args \in ConcArgs(name) : Call(s, name, args)
  \/ \E s \in Slots : \E resp \in Responses(inv[s].op) : Respond(s, resp)
  \/ \E s \in Slots : Deliver(s)

SpecConc == Init /\ [][NextConc]_vars

(***************************************************************************)
(* The client used on its own (it is an exported class): a caller          *)
(* constructs a BlinkoClient from a domain and an API key and calls        *)
(* upsertNote or clearRecycleBin on it.  cli is that client: whether the   *)
(* constructor returned or threw, its base URL, the operation in progress, *)
(* the requests handed to fetch and what the operation returned or threw.  *)
(***************************************************************************)
ClientDomains ==
  {"", "/", "example.com", "example.com/", "example.com:3000", "https://example.com",
   "http://example.com:3000/", "https://example.com//", "HTTP://EXAMPLE.COM",
   "ftp://example.com"}

InitClient ==
  /\ domain \in ClientDomains
  /\ apiKey \in ApiKeys
  /\ inv = [s \in Slots |-> Idle]
  /\ cli = NoClient

\* new BlinkoClient({ domain, apiKey })
Construct ==
  /\ cli.pc = "none"
  /\ LET c == normalizeDomain(domain)
     IN  cli' = [cli EXCEPT !.pc = IF c.threw THEN "failed" ELSE "built",
                            !.baseUrl = c.baseUrl, !.error = c.error]
  /\ UNCHANGED <<domain, apiKey, inv>>

UpsertParams ==
  {[content |-> c, type |-> t] : c \in {Str(""), Str("buy milk")},
                                  t \in {Undefined, Num(2)}}

\* client.upsertNote(params) or client.clearRecycleBin(), up to the fetch
ClientCall(op, params) ==
  /\ cli.pc = "built"
  /\ LET call == IF op = "upsertNote" THEN upsertNote(cli.baseUrl, apiKey, params)
                 ELSE clearRecycleBin(cli.baseUrl, apiKey)
     IN  cli' = [cli EXCEPT !.pc = IF call.threw THEN "settled" ELSE "awaiting",
                            !.op = op, !.params = params,
                            !.sent = IF call.threw THEN <<>> ELSE <<call.request>>,
                            !.result = IF call.threw THEN Rejected(call.error)
                                       ELSE Resolved(<<>>)]
  /\ UNCHANGED <<domain, apiKey, inv>>

\* the transport answers the fetch of the operation in progress
ClientSettle(resp) ==
  /\ cli.pc = "awaiting"
  /\ cli' = [cli EXCEPT !.pc = "settled",
                        !.result = IF cli.op = "upsertNote" THEN upsertNoteResult(resp)
                                   ELSE clearRecycleBinResult(resp)]
  /\ UNCHANGED <<domain, apiKey, inv>>

\* the caller drops the client
Discard ==
  /\ cli.pc \in {"failed", "settled"}
  /\ cli' = NoClient
  /\ UNCHANGED <<domain, apiKey, inv>>

NextClient ==
  \/ Construct
  \/ \E params \in UpsertParams : ClientCall("upsertNote", params)
  \/ ClientCall("clearRecycleBin", [content |-> Undefined, type |-> Undefined])
  \/ \E resp \in Responses(cli.op) : ClientSettle(resp)
  \/ Discard

SpecClient == InitClient /\ [][NextClient]_vars

(***************************************************************************)
(* Properties.                                                             *)
(***************************************************************************)
Configured == domain # "" /\ apiKey # ""

Started(s) == inv[s].pc # "idle"

Issued(s) == inv[s].sent # <<>>

\* the request the invocation in slot s handed to fetch
Req(s) == inv[s].sent[1]

FailedWith(s, msg) ==
  /\ inv[s].pc = "done"
  /\ inv[s].outcome.status = "error"
  /\ inv[s].outcome.error = msg
  /\ inv[s].outcome.content = <<>>

\* C1: whatever the tool and the arguments, with the domain or the API key
\* empty the invocation fails with the configuration error, constructs no
\* client and hands nothing to fetch.
C1_ConfigurationFirst ==
  \A s \in Slots :
    Started(s) /\ ~Configured =>
      /\ FailedWith(s, IF domain = "" THEN "Blinko domain not set"
                       ELSE "Blinko API key not set")
      /\ ~inv[s].clientBuilt
      /\ inv[s].sent = <<>>

\* C1 witness: a share invocation with a malformed password, and the API key
\* missing, has ended.
C1_Witness ==
  /\ domain # "" /\ apiKey = ""
  /\ inv[1].pc = "done"
  /\ inv[1].name = "share_blinko_note"
  /\ inv[1].args.password = Str("12345")
  /\ inv[1].outcome.error = "Blinko API key not set"

\* C2 (as claimed): an upsert invocation whose content is missing or empty
\* fails and issues no request.
C2_ContentRequired ==
  \A s \in Slots :
    /\ Started(s) /\ inv[s].name \in UpsertTools
    /\ inv[s].args.content \in {Undefined, Str("")}
    => /\ inv[s].pc = "done"
       /\ inv[s].outcome.status = "error"
       /\ inv[s].sent = <<>>

\* C3 (as claimed): for the tools that take a noteId, a noteId that is absent
\* or does not coerce to a finite number fails with the validation error and
\* issues no request.
C3_NoteIdFinite ==
  \A s \in Slots :
    /\ Configured /\ Started(s) /\ inv[s].name \in NoteIdTools
    /\ ~IsFinite(ToNumber(inv[s].args.noteId))
    => /\ FailedWith(s, "Valid note ID is required")
       /\ inv[s].sent = <<>>

C5_OnlySuppliedFields ==
  \A s \in Slots :
    Issued(s) /\ inv[s].name = "update_blinko_note" =>
      LET payload == Req(s).body["0"].json
          supplied == {k \in {"content", "type", "isArchived", "isTop"} :
                         inv[s].args[k] # Undefined}
      IN  /\ DOMAIN payload = {"id"} \cup supplied
          /\ inv[s].args.noteId = Num(5) => payload.id = Num(5)
          /\ inv[s].args = [NoArgs EXCEPT !.noteId = Num(5)] => payload = [id |-> Num(5)]

\* C5 witness: update_blinko_note was called with {noteId: 5} alone and its
\* request is out.
C5_Witness ==
  /\ inv[1].pc = "awaiting"
  /\ inv[1].name = "update_blinko_note"
  /\ inv[1].args = [NoArgs EXCEPT !.noteId = Num(5)]
  /\ Len(inv[1].sent) = 1

\* the object a write request carries: the body of the upsert request, the
\* inner payload of the update request
WritePayload(req) == IF "0" \in DOMAIN req.body THEN req.body["0"].json ELSE req.body

\* C6 (as claimed): every upsert or update request that carries a type
\* carries a type in {0, 1, 2}.
C6_WriteTypeInRange ==
  \A s \in Slots :
    /\ Issued(s)
    /\ inv[s].name \in UpsertTools \cup {"update_blinko_note"}
    /\ "type" \in DOMAIN WritePayload(Req(s))
    => WritePayload(Req(s)).type \in {Num(0), Num(1), Num(2)}

\* C7: the type filter of the search request is the supplied type when that
\* is the number 0, 1 or 2, and -1 in every other case.
C7_SearchTypeFilter ==
  \A s \in Slots :
    Issued(s) /\ inv[s].name = "search_blinko_notes" =>
      LET type == inv[s].args.type
      IN  /\ type = Num(0) => Req(s).body.type = Num(0)
          /\ type = Num(1) => Req(s).body.type = Num(1)
          /\ type = Num(2) => Req(s).body.type = Num(2)
          /\ type \notin {Num(0), Num(1), Num(2)} => Req(s).body.type = Num(-1)

\* C7 witness: a search with type 5 is out with the filter -1.
C7_Witness ==
  /\ inv[1].pc = "awaiting"
  /\ inv[1].name = "search_blinko_notes"
  /\ inv[1].args.searchText = Str("project")
  /\ inv[1].args.type = Num(5)
  /\ Req(1).body.type = Num(-1)

\* C8: when the remote service answers with a status outside 200..299, the
\* invocation fails, its message holds the status code and the body text,
\* and it returns no block.
C8_UpstreamErrorSurfaced ==
  \A s \in Slots :
    /\ inv[s].pc = "done" /\ inv[s].response.kind = "http"
    /\ ~(inv[s].response.status \in 200..299)
    => /\ inv[s].outcome.status = "error"
       /\ Contains(inv[s].outcome.error, ToString(inv[s].response.status))
       /\ Contains(inv[s].outcome.error, inv[s].response.text)
       /\ inv[s].outcome.content = <<>>

\* C8 witness: delete_blinko_note was answered 404 "note not found".
C8_Witness ==
  /\ inv[1].pc = "done"
  /\ inv[1].name = "delete_blinko_note"
  /\ inv[1].response.status = 404
  /\ inv[1].response.text = "note not found"
  /\ inv[1].outcome.error = "Failed to delete note: 404: note not found"

\* C9: complete_blinko_todo and archive_blinko_note called with the same
\* noteId hand the same request to fetch (POST to the update path with the
\* payload {id, isArchived: true}) or both none, and end the same way on the
\* same answer, the confirmation reading "completed" for one and "archived"
\* for the other.
C9_CompleteIsArchive ==
  \A i, j \in Slots :
    /\ Started(i) /\ inv[i].name = "archive_blinko_note"
    /\ Started(j) /\ inv[j].name = "complete_blinko_todo"
    /\ inv[i].args.noteId = inv[j].args.noteId
    => LET n == ToNumber(inv[i].args.noteId)
       IN  /\ inv[i].sent = inv[j].sent
           /\ Issued(i) =>
                /\ Len(inv[i].sent) = 1
                /\ Req(i).method = "POST"
                /\ Req(i).url \in {"https://example.com/api/trpc/notes.upsert?batch=1",
                                   "http://example.com:3000/api/trpc/notes.upsert?batch=1"}
                /\ DOMAIN Req(i).body["0"].json = {"id", "isArchived"}
                /\ Req(i).body["0"].json.isArchived = Bool(TRUE)
                /\ IsFinite(n) => Req(i).body["0"].json.id = n
           /\ inv[i].pc = "done" /\ inv[j].pc = "done"
              /\ inv[i].response = inv[j].response
              => /\ inv[i].outcome.status = inv[j].outcome.status
                 /\ inv[i].outcome.error = inv[j].outcome.error
                 /\ inv[i].outcome.status = "ok" =>
                      /\ inv[i].outcome.content = <<"Successfully archived note " \o ToStr(n)>>
                      /\ inv[j].outcome.content = <<"Successfully completed note " \o ToStr(n)>>

\* C9 witness: archive_blinko_note(7) and complete_blinko_todo(7) were both
\* answered 200 and both have ended.
C9_Witness ==
  /\ inv[1].name = "archive_blinko_note" /\ inv[2].name = "complete_blinko_todo"
  /\ inv[1].args.noteId = Num(7) /\ inv[2].args.noteId = Num(7)
  /\ inv[1].pc = "done" /\ inv[2].pc = "done"
  /\ inv[1].response.status = 200 /\ inv[2].response.status = 200
  /\ inv[2].outcome.content = <<"Successfully completed note 7">>

\* C10 (as claimed): in the output of search_blinko_notes and
\* review_blinko_daily_notes, a returned note whose createdAt or updatedAt
\* does not parse as a date is rendered with that raw text after "Created: "
\* or "Updated: ", and the invocation succeeds.
C10_RawTimestampShown ==
  \A s \in Slots :
    /\ inv[s].pc = "done"
    /\ inv[s].name \in {"search_blinko_notes", "review_blinko_daily_notes"}
    /\ inv[s].response.kind = "http" /\ inv[s].response.status = 200
    /\ inv[s].response.parses
    => /\ inv[s].outcome.status = "ok"
       /\ Len(inv[s].outcome.content) = Len(inv[s].response.json) + 1
       /\ \A k \in 1..Len(inv[s].response.json) :
            LET note == inv[s].response.json[k]
                block == inv[s].outcome.content[k + 1]
            IN  /\ ~NewDate(note.createdAt.s).valid =>
                     Contains(block, "Created: " \o note.createdAt.s \o " | Updated: ")
                /\ ~NewDate(note.updatedAt.s).valid =>
                     Contains(block, " | Updated: " \o note.updatedAt.s)

\* the arguments the handler accepts for the tool: the conditions under which
\* no case of the switch throws before its client operation is called
ArgsPass(name, args) ==
  CASE name \in UpsertTools -> ToStr(args.content) # ""
    [] name \in NoteIdTools \ {"share_blinko_note"} ->
         ToNumber(args.noteId) \notin {NaN, Num(0)}
    [] name = "share_blinko_note" ->
         /\ ToNumber(args.noteId) \notin {NaN, Num(0)}
         /\ \/ ~Truthy(args.password)
            \/ Len(ToStr(args.password)) = 6 /\ AllDigits(ToStr(args.password))
    [] name = "search_blinko_notes" -> ToStr(args.searchText) # ""
    [] name \in {"review_blinko_daily_notes", "clear_blinko_recycle_bin"} -> TRUE
    [] OTHER -> FALSE

\* the answer is a failed request: a status outside 200..299, or no answer
FailedRequest(resp) ==
  \/ resp.kind = "neterr"
  \/ resp.kind = "http" /\ ~(resp.status \in 200..299)

\* C11: over its whole execution an invocation hands exactly one request to
\* fetch when the configuration and its arguments pass, and none otherwise;
\* after a failed request (a status outside 200..299 or a transport failure)
\* it has still issued that one request only and has ended in failure.
C11_SingleAttempt ==
  \A s \in Slots :
    Started(s) =>
      /\ Len(inv[s].sent) = IF Configured /\ ArgsPass(inv[s].name, inv[s].args)
                            THEN 1 ELSE 0
      /\ inv[s].pc = "awaiting" => Len(inv[s].sent) = 1
      /\ inv[s].pc = "done" /\ FailedRequest(inv[s].response) =>
           /\ Len(inv[s].sent) = 1
           /\ inv[s].outcome.status = "error"
           /\ inv[s].outcome.content = <<>>

\* C11 witness: update_blinko_note was answered 500 and has ended in failure
\* with its single request.
C11_Witness ==
  /\ inv[1].pc = "done"
  /\ inv[1].name = "update_blinko_note"
  /\ inv[1].response.status = 500
  /\ Len(inv[1].sent) = 1
  /\ inv[1].outcome.status = "error"

\* the output of a share: the identifier block, the password block exactly
\* when the answer r holds a non-empty share password, then the link block
\* with the returned link or "N/A"
SharedOutput(c, r) ==
  LET withPassword == r.sharePassword.t = "string" /\ r.sharePassword.s # ""
      withLink == r.shareEncryptedUrl.t = "string" /\ r.shareEncryptedUrl.s # ""
  IN  /\ Len(c) = IF withPassword THEN 3 ELSE 2
      /\ c[1] = "Successfully shared note (ID: " \o ToString(r.id.n) \o ")"
      /\ withPassword => c[2] = "Share password: " \o r.sharePassword.s
      /\ c[Len(c)] = "Share link: " \o (IF withLink THEN r.shareEncryptedUrl.s ELSE "N/A")

\* the output of a cancellation: one confirmation block
CancelledOutput(c, r) ==
  c = <<"Successfully cancelled sharing for note (ID: " \o ToString(r.id.n) \o ")">>

ShareSucceeded(s) ==
  /\ inv[s].pc = "done"
  /\ inv[s].name = "share_blinko_note"
  /\ inv[s].outcome.status = "ok"

\* C12 (as claimed): a successful share_blinko_note returns the share output
\* when isCancel is not true in the call, and the single cancellation block
\* when isCancel is true.
C12_OutputFollowsRequest ==
  \A s \in Slots :
    ShareSucceeded(s) =>
      IF inv[s].args.isCancel = Bool(TRUE)
      THEN CancelledOutput(inv[s].outcome.content, inv[s].response.json)
      ELSE SharedOutput(inv[s].outcome.content, inv[s].response.json)

\* C12 (amended): a successful share_blinko_note returns the share output
\* (identifier block, password block if and only if the answer holds a
\* non-empty share password, link block with the link or "N/A") when the
\* answer of the remote service reports isShare true, and the single
\* cancellation block when it reports isShare false, whatever isCancel was
\* in the call.
C12_OutputFollowsAnswer ==
  \A s \in Slots :
    ShareSucceeded(s) =>
      IF inv[s].response.json.isShare = Bool(TRUE)
      THEN SharedOutput(inv[s].outcome.content, inv[s].response.json)
      ELSE CancelledOutput(inv[s].outcome.content, inv[s].response.json)

\* C12 witness: a share was answered with a password and no link, and the
\* three blocks are out.
C12_Witness ==
  /\ ShareSucceeded(1)
  /\ inv[1].args.isCancel = Undefined
  /\ inv[1].response.json.isShare = Bool(TRUE)
  /\ inv[1].response.json.sharePassword = Str("123456")
  /\ inv[1].response.json.shareEncryptedUrl = Null
  /\ inv[1].outcome.content = <<"Successfully shared note (ID: 5)",
                                "Share password: 123456", "Share link: N/A">>

\* the domain without one trailing slash
WithoutSlash(dom) ==
  IF Len(dom) > 0 /\ SubSeq(dom, Len(dom), Len(dom)) = "/"
  THEN SubSeq(dom, 1, Len(dom) - 1) ELSE dom

HasScheme(d) ==
  \/ Len(d) >= 7 /\ SubSeq(d, 1, 7) = "http://"
  \/ Len(d) >= 8 /\ SubSeq(d, 1, 8) = "https://"

\* C13: constructing the client from a non-empty domain gives the base URL
\* that is the domain without one trailing slash when that starts with
\* http:// or https://, and https:// followed by it otherwise; from the empty
\* domain the constructor throws "Domain cannot be empty".  Every request of
\* the client goes to a path under that base URL.
C13_BaseUrl ==
  cli.pc # "none" =>
    /\ domain = "" => cli.pc = "failed" /\ cli.error = "Domain cannot be empty"
    /\ domain # "" =>
         /\ cli.pc # "failed"
         /\ cli.baseUrl = IF HasScheme(WithoutSlash(domain)) THEN WithoutSlash(domain)
                          ELSE "https://" \o WithoutSlash(domain)
    /\ domain = "example.com/" => cli.baseUrl = "https://example.com"
    /\ domain = "http://example.com:3000/" => cli.baseUrl = "http://example.com:3000"
    /\ domain = "https://example.com//" => cli.baseUrl = "https://example.com/"
    /\ \A i \in 1..Len(cli.sent) :
         cli.sent[i].url \in {cli.baseUrl \o "/api/v1/note/upsert",
                              cli.baseUrl \o "/api/v1/note/clear-recycle-bin"}

\* C13 witness: a client built from "example.com/" has sent an upsert to
\* https://example.com.
C13_Witness ==
  /\ domain = "example.com/"
  /\ cli.pc = "awaiting"
  /\ cli.op = "upsertNote"
  /\ cli.sent[1].url = "https://example.com/api/v1/note/upsert"

\* what an invocation issued and how it ended is a function of its own tool
\* name, its own arguments and the answer to its own request
Determined ==
  \A i, j \in Slots :
    /\ Started(i) /\ Started(j)
    /\ inv[i].name = inv[j].name /\ inv[i].args = inv[j].args
    => /\ inv[i].sent = inv[j].sent
       /\ inv[i].clientBuilt = inv[j].clientBuilt
       /\ inv[i].pc = "done" /\ inv[j].pc = "done" /\ inv[i].response = inv[j].response
          => inv[i].outcome = inv[j].outcome

\* C14: under every interleaving of concurrent invocations, a step of one
\* invocation leaves every other invocation and the configuration as they
\* were, and the request and the result of each invocation depend only on
\* its own name and arguments, the configuration and its own answer.
C14_Independent ==
  [][/\ \E s \in Slots : \A t \in Slots \ {s} : inv'[t] = inv[t]
     /\ domain' = domain /\ apiKey' = apiKey
     /\ Determined /\ Determined']_vars

\* C14 witness: archive_blinko_note(7) is suspended at its fetch while
\* delete_blinko_note("7"), called after it, has already been answered 404.
C14_Witness ==
  /\ inv[1].pc = "awaiting" /\ inv[1].name = "archive_blinko_note"
  /\ inv[1].args.noteId = Num(7)
  /\ inv[2].pc = "done" /\ inv[2].name = "delete_blinko_note"
  /\ inv[2].args.noteId = Str("7")
  /\ inv[2].response.status = 404
  /\ inv[2].outcome.error = "Failed to delete note: 404: note not found"

\* C15: clear_blinko_recycle_bin never fails with "Failed to clear recycle
\* bin": answered with a status in 200..299 it returns the single
\* confirmation block, otherwise it fails with the error of the client
\* operation (the upstream status and body, or the transport failure).
C15_NoGenericFailure ==
  \A s \in Slots :
    inv[s].pc = "done" /\ inv[s].name = "clear_blinko_recycle_bin" =>
      /\ inv[s].outcome.error # "Failed to clear recycle bin"
      /\ Issued(s) /\ inv[s].response.kind = "http" /\ inv[s].response.status \in 200..299
         => /\ inv[s].outcome.status = "ok"
            /\ inv[s].outcome.content = <<"Successfully cleared Blinko recycle bin.">>
      /\ Issued(s) /\ FailedRequest(inv[s].response)
         => /\ inv[s].outcome.status = "error"
            /\ inv[s].outcome.error \in
                 {"fetch failed",
                  "request failed with status " \o ToString(inv[s].response.status)
                    \o ": " \o inv[s].response.text}

\* C15 witness: the recycle bin was cleared on an answer 204 with no body.
C15_Witness ==
  /\ inv[1].pc = "done"
  /\ inv[1].name = "clear_blinko_recycle_bin"
  /\ inv[1].response.status = 204
  /\ inv[1].outcome.status = "ok"

====
